---- MODULE Spec2Model ----
(***************************************************************************)
(* Klondike solitaire: the rule engine SolitaireGame of                    *)
(* src/unnamed/part_000 (solitaire_tkinter.py).                            *)
(*                                                                         *)
(* A Card object is identified by its (suit, rank) pair; its one mutable   *)
(* field face_up lives in the heap function face_up, so that a card        *)
(* referenced from two piles would share its flag, as the Python objects   *)
(* do.  Piles are sequences of card references, last element = top.        *)
(* A rank is written as its RANK_VALUES value: 'A' is 1, 'K' is the last.  *)
(*                                                                         *)
(* Calls are made with every source value, every existing target pile and  *)
(* every card_idx from 0 to the length of the source pile.  A negative     *)
(* card_idx and a target index that names no pile (IndexError in Python)   *)
(* are not called.                                                         *)
(*                                                                         *)
(* Around the engine: the window SolitaireGUI of the same file, with its   *)
(* selection and its click handlers (SpecGUI, SpecFlip), and the game      *)
(* object of the second program, src/text.py (SpecText).  Each of the      *)
(* specifications runs one program; the variables of the others keep the   *)
(* value they have before that program is started.                         *)
(***************************************************************************)
EXTENDS Integers, Sequences, FiniteSets, TLC

\* ---- bounds of the model ------------------------------------------------
\* The program plays 13 ranks on 7 tableau piles; the model plays the same
\* rules on NumRanks ranks (the highest is the King) and NumTableau piles.
NumRanks == 3
NumTableau == 4
\* Shuffles explored: the freshly built deck read with a stride of Strides
\* from a cut offset in 0..MaxCut.
MaxCut == 0
\* The moves counter is capped: no operation is called once it is reached.
MaxMoves == 5
\* ... and a caller that only draws and moves to the foundations goes on
\* until MaxWinMoves, far enough to finish a game.
MaxWinMoves == 14
\* The window is used until the moves counter reaches MaxGuiMoves.
MaxGuiMoves == 3
\* The second program (src/text.py) is used until its moves counter reaches
\* MaxTextMoves, and restarted at most MaxRestarts times.
MaxTextMoves == 3
MaxRestarts == 1

\* ---- program constants --------------------------------------------------
NumFoundations == 4

Suits == <<"SPADE", "HEART", "DIAMOND", "CLUB">>
RANKS == 1 .. NumRanks
Ace == 1
King == NumRanks

Cards == [suit : {Suits[i] : i \in 1 .. Len(Suits)}, rank : RANKS]
DeckSize == Len(Suits) * NumRanks

color(card) == IF card.suit \in {"HEART", "DIAMOND"} THEN "red" ELSE "black"

\* ---- sequence helpers (Python list operations) --------------------------
\* s[-1], and s after s.pop()
Last(s) == s[Len(s)]
\* faulty variant: the card is read but never popped
FrontKept(s) == s
Front(s) == SubSeq(s, 1, Len(s) - 1)
\* s[k:], and s after "del s[k:]", for a 0-based k with 0 <= k
\* faulty variant: only the addressed card is lifted, not the run above it
SliceFromOne(s, k) == <<s[k + 1]>>
SliceFrom(s, k) == SubSeq(s, k + 1, Len(s))
\* faulty variant: the moved run is never deleted from the source
SliceToKept(s, k) == s
SliceTo(s, k) == SubSeq(s, 1, IF k < Len(s) THEN k ELSE Len(s))
Reverse(s) == [i \in 1 .. Len(s) |-> s[Len(s) + 1 - i]]
Range(s) == {s[i] : i \in 1 .. Len(s)}

RECURSIVE Gcd(_, _)
Gcd(a, b) == IF b = 0 THEN a ELSE Gcd(b, a % b)

\* ---- the game object ----------------------------------------------------
\* The fields of the SolitaireGame object, and what a caller observes of the
\* last call: the method called (call), the value it returned (ret) and,
\* when it returned True, its arguments, the number of cards its target pile
\* gained and whether it turned a card (applied).
VARIABLES stock, waste, foundations, tableau, face_up, moves, call, ret, applied
\* The window around the game object (SolitaireGUI): the selected card and
\* the pile it was selected on.
VARIABLES selected_card, selected_source
\* The game object of the second program, src/text.py, as one record.
VARIABLE text

game == <<stock, waste, foundations, tableau, face_up, moves>>
selection == <<selected_card, selected_source>>
vars == <<stock, waste, foundations, tableau, face_up, moves, call, ret, applied,
          selected_card, selected_source, text>>

\* call sources: the string 'waste' (or another string) or an integer
StrSrc(s) == [kind |-> "str", str |-> s, int |-> 0]
IntSrc(i) == [kind |-> "int", str |-> "", int |-> i]
\* faulty variant: every string names the waste
IsWasteAnyString(from_pile) == from_pile.kind = "str"
IsWaste(from_pile) == from_pile.kind = "str" /\ from_pile.str = "waste"
InRange(from_pile) == from_pile.kind = "int" /\ from_pile.int \in 0 .. NumTableau - 1

\* The deck as initialize_deck builds it, before the shuffle.
FreshDeck == [n \in 1 .. DeckSize |->
                [suit |-> Suits[((n - 1) \div NumRanks) + 1],
                 rank |-> ((n - 1) % NumRanks) + 1]]

\* Outcomes of random.shuffle that the model explores: the fresh deck read
\* with stride a from offset b.
Shuffled(a, b) == [n \in 1 .. DeckSize |-> FreshDeck[((a * (n - 1) + b) % DeckSize) + 1]]
Strides == {1, 5}
Shuffles == {Shuffled(a, b) : a \in {x \in Strides : Gcd(DeckSize, x) = 1},
                              b \in 0 .. MaxCut}

\* number of cards dealt to tableau piles 0 .. i-1
DealtBefore(i) == (i * (i + 1)) \div 2
\* deck.pop() number k (k = 1, 2, ...) returns deck[DeckSize + 1 - k]
Popped(deck, k) == deck[DeckSize + 1 - k]

\* The state after __init__ with the given shuffle outcome.
\* faulty variant: every dealt card is turned face-up, not just the last
\* one of each pile
DealtAllFaceUp(deck) ==
    [stock |-> SubSeq(deck, 1, DeckSize - DealtBefore(NumTableau)),
     waste |-> <<>>,
     foundations |-> [f \in 0 .. NumFoundations - 1 |-> <<>>],
     tableau |-> [i \in 0 .. NumTableau - 1 |->
                    [j \in 1 .. i + 1 |-> Popped(deck, DealtBefore(i) + j)]],
     face_up |-> [c \in Cards |->
                    \E k \in 1 .. DealtBefore(NumTableau) : c = Popped(deck, k)],
     moves |-> 0]

Dealt(deck) ==
    [stock |-> SubSeq(deck, 1, DeckSize - DealtBefore(NumTableau)),
     waste |-> <<>>,
     foundations |-> [f \in 0 .. NumFoundations - 1 |-> <<>>],
     tableau |-> [i \in 0 .. NumTableau - 1 |->
                    [j \in 1 .. i + 1 |-> Popped(deck, DealtBefore(i) + j)]],
     face_up |-> [c \in Cards |->
                    \E i \in 0 .. NumTableau - 1 : c = Popped(deck, DealtBefore(i) + i + 1)],
     moves |-> 0]

\* The game object as one record, and back.
Game == [stock |-> stock, waste |-> waste, foundations |-> foundations,
         tableau |-> tableau, face_up |-> face_up, moves |-> moves]

Becomes(g) ==
    /\ stock' = g.stock
    /\ waste' = g.waste
    /\ foundations' = g.foundations
    /\ tableau' = g.tableau
    /\ face_up' = g.face_up
    /\ moves' = g.moves

NoArgs == [src |-> StrSrc(""), dst |-> 0, idx |-> 0, n |-> 0, flipped |-> FALSE]

\* Python's None where a card, a source or a pile is expected
NoneCard == [suit |-> "", rank |-> 0]
NoneSrc == [kind |-> "none", str |-> "", int |-> 0]
NonePile == [is_foundation |-> FALSE, idx |-> 0 - 1]

\* The second program before its window is built: no pile exists yet.
NotStarted ==
    [deck |-> <<>>, waste_pile |-> <<>>, foundation_piles |-> <<>>, tableau_piles |-> <<>>,
     selected_card |-> NoneCard, selected_pile |-> NonePile, moves |-> 0]

\* what a call on the game object leaves alone
outside == <<selected_card, selected_source, text>>

Init ==
    /\ \E deck \in Shuffles :
         /\ stock = Dealt(deck).stock
         /\ waste = Dealt(deck).waste
         /\ foundations = Dealt(deck).foundations
         /\ tableau = Dealt(deck).tableau
         /\ face_up = Dealt(deck).face_up
         /\ moves = Dealt(deck).moves
    /\ call = "__init__"
    /\ ret = "None"
    /\ applied = NoArgs
    /\ selected_card = NoneCard
    /\ selected_source = NoneSrc
    /\ text = NotStarted

\* ---- SolitaireGame: the rules ------------------------------------------
\* faulty variants: an empty pile takes any card; the colour is not compared
can_place_on_tableau_any_first(card, pile) ==
    IF pile = <<>>
    THEN TRUE
    ELSE card.rank = Last(pile).rank - 1 /\ color(card) # color(Last(pile))

can_place_on_tableau_any_color(card, pile) ==
    IF pile = <<>>
    THEN card.rank = King
    ELSE card.rank = Last(pile).rank - 1

can_place_on_tableau(card, pile) ==
    IF pile = <<>>
    THEN card.rank = King
    ELSE card.rank = Last(pile).rank - 1 /\ color(card) # color(Last(pile))

\* faulty variant: the suit is not compared
can_move_to_foundation_any_suit(g, card, foundation_idx) ==
    LET foundation == g.foundations[foundation_idx]
    IN  IF foundation = <<>>
        THEN card.rank = Ace
        ELSE card.rank = Last(foundation).rank + 1

can_move_to_foundation(g, card, foundation_idx) ==
    LET foundation == g.foundations[foundation_idx]
    IN  IF foundation = <<>>
        THEN card.rank = Ace
        ELSE card.suit = Last(foundation).suit /\ card.rank = Last(foundation).rank + 1

\* "if pile and not pile[-1].face_up: pile[-1].face_up = True"
\* faulty variant: the uncovered card is never turned
FlipTopSkipped(flags, pile) == flags

\* faulty variant: a card left alone in its pile is not turned
FlipTopUnlessLast(flags, pile) ==
    IF Len(pile) > 1 /\ ~flags[Last(pile)]
    THEN [flags EXCEPT ![Last(pile)] = TRUE]
    ELSE flags

\* faulty variant: the top card is turned over, whichever side was up
FlipTopToggled(flags, pile) ==
    IF pile = <<>> THEN flags ELSE [flags EXCEPT ![Last(pile)] = ~@]

FlipTop(flags, pile) ==
    IF pile # <<>> /\ ~flags[Last(pile)]
    THEN [flags EXCEPT ![Last(pile)] = TRUE]
    ELSE flags

\* Each operation maps the game g to the game after the call and the value
\* the call returns ("True", "False", or "None" for a method without one).
\* "return False": the game is as it was.
\* faulty variant: the attempt is counted as a move before it is refused
FailedCounted(g) == [g |-> [g EXCEPT !.moves = g.moves + 1], ret |-> "False"]

Failed(g) == [g |-> g, ret |-> "False"]

\* draw_from_stock with an empty stock: pop every waste card, turn it down,
\* append it to the stock.
\* faulty variant: the waste goes back in its own order, not reversed
RecycleInOrder(g) ==
    [g |-> [g EXCEPT !.stock = g.stock \o g.waste,
                     !.waste = <<>>,
                     !.face_up = [c \in Cards |->
                                    IF c \in Range(g.waste) THEN FALSE ELSE g.face_up[c]]],
     ret |-> "None"]

\* faulty variant: the recycled cards keep their face-up flag
RecycleFaceUp(g) ==
    [g |-> [g EXCEPT !.stock = g.stock \o Reverse(g.waste),
                     !.waste = <<>>],
     ret |-> "None"]

Recycle(g) ==
    [g |-> [g EXCEPT !.stock = g.stock \o Reverse(g.waste),
                     !.waste = <<>>,
                     !.face_up = [c \in Cards |->
                                    IF c \in Range(g.waste) THEN FALSE ELSE g.face_up[c]]],
     ret |-> "None"]

\* draw_from_stock with cards in the stock
\* faulty variant: the drawn card is not turned face-up
DrawTopFaceDown(g) ==
    [g |-> [g EXCEPT !.stock = Front(g.stock),
                     !.waste = Append(g.waste, Last(g.stock)),
                     !.moves = g.moves + 1],
     ret |-> "None"]

DrawTop(g) ==
    [g |-> [g EXCEPT !.stock = Front(g.stock),
                     !.waste = Append(g.waste, Last(g.stock)),
                     !.face_up = [g.face_up EXCEPT ![Last(g.stock)] = TRUE],
                     !.moves = g.moves + 1],
     ret |-> "None"]

\* faulty variant: no return after the recycle, a card is drawn at once
draw_from_stock_no_return(g) ==
    IF g.stock = <<>>
    THEN IF g.waste = <<>> THEN Recycle(g) ELSE DrawTop(Recycle(g).g)
    ELSE DrawTop(g)

draw_from_stock(g) == IF g.stock = <<>> THEN Recycle(g) ELSE DrawTop(g)

move_to_tableau(g, from_pile, to_pile_idx, card_idx) ==
    IF IsWaste(from_pile)
    THEN IF g.waste = <<>>
         THEN Failed(g)
         ELSE IF can_place_on_tableau(Last(g.waste), g.tableau[to_pile_idx])
              THEN [g |-> [g EXCEPT !.tableau[to_pile_idx] = Append(@, Last(g.waste)),
                                    !.waste = Front(g.waste),
                                    !.moves = g.moves + 1,
                                    !.face_up = FlipTop(g.face_up, Front(g.waste))],
                    ret |-> "True"]
              ELSE Failed(g)
    ELSE IF InRange(from_pile)
    THEN LET src == from_pile.int
             pile == g.tableau[src]
         IN  IF card_idx < Len(pile) /\ g.face_up[pile[card_idx + 1]]
             THEN LET cards_to_move == SliceFrom(pile, card_idx)
                      \* extend the target, then cut the source list: two
                      \* updates in this order, also when both are one list
                      extended == [g.tableau EXCEPT ![to_pile_idx] = @ \o cards_to_move]
                      cut == [extended EXCEPT ![src] = SliceTo(@, card_idx)]
                  IN  IF can_place_on_tableau(cards_to_move[1], g.tableau[to_pile_idx])
                      THEN [g |-> [g EXCEPT !.tableau = cut,
                                            !.moves = g.moves + 1,
                                            !.face_up = FlipTop(g.face_up, cut[src])],
                            ret |-> "True"]
                      ELSE Failed(g)
             ELSE Failed(g)
    ELSE Failed(g)

\* foundation.append(card)
\* faulty variant: the card is slid under the foundation
PushedUnder(pile, card) == <<card>> \o pile
Pushed(pile, card) == Append(pile, card)

move_to_foundation(g, from_pile, foundation_idx) ==
    LET fromWaste == /\ IsWaste(from_pile)
                     /\ g.waste # <<>>
                     /\ can_move_to_foundation(g, Last(g.waste), foundation_idx)
        fromPile == /\ ~IsWaste(from_pile)
                    /\ InRange(from_pile)
                    /\ g.tableau[from_pile.int] # <<>>
                    /\ g.face_up[Last(g.tableau[from_pile.int])]
                    /\ can_move_to_foundation(g, Last(g.tableau[from_pile.int]), foundation_idx)
    IN  IF fromWaste
        THEN [g |-> [g EXCEPT !.waste = Front(g.waste),
                              !.foundations[foundation_idx] = Pushed(@, Last(g.waste)),
                              !.moves = g.moves + 1],
              ret |-> "True"]
        ELSE IF fromPile
        THEN LET src == from_pile.int
                 rest == Front(g.tableau[src])
             IN  [g |-> [g EXCEPT !.tableau[src] = rest,
                                  !.foundations[foundation_idx] = Pushed(@, Last(g.tableau[src])),
                                  !.moves = g.moves + 1,
                                  !.face_up = FlipTop(g.face_up, rest)],
                  ret |-> "True"]
        ELSE Failed(g)

\* faulty variant: any() in place of all()
is_won_any(g) == \E f \in 0 .. NumFoundations - 1 : Len(g.foundations[f]) = King
is_won(g) == \A f \in 0 .. NumFoundations - 1 : Len(g.foundations[f]) = King

\* ---- calls on the game object ------------------------------------------
\* Sources a caller may pass: 'waste', a tableau index, and values that are
\* neither (another string, the first index past the tableau).  Target
\* indices are existing piles.
Sources == {StrSrc("waste"), StrSrc("stock")} \cup {IntSrc(i) : i \in 0 .. NumTableau}

\* card_idx values tried on a source: every position of the pile and the
\* first one past its end; None (written 0) when the source is no pile.
CardIdxs(from_pile) ==
    IF InRange(from_pile) THEN 0 .. Len(tableau[from_pile.int]) ELSE {0}

\* What the caller sees of a call that returned r on the game g.
Observed(op, g, r, from_pile, dst, card_idx, gained) ==
    /\ call' = op
    /\ ret' = r.ret
    /\ applied' = IF r.ret = "True"
                  THEN [src |-> from_pile, dst |-> dst, idx |-> card_idx, n |-> gained,
                        flipped |-> r.g.face_up # g.face_up]
                  ELSE NoArgs

NewGame ==
    /\ \E deck \in Shuffles : Becomes(Dealt(deck))
    /\ call' = "new_game"
    /\ ret' = "None"
    /\ applied' = NoArgs
    /\ UNCHANGED outside

\* the calls while the moves counter is below a limit
DrawWithin(limit) ==
    /\ moves < limit
    /\ \E r \in {draw_from_stock(Game)} :
            /\ Becomes(r.g)
            /\ Observed("draw_from_stock", Game, r, StrSrc(""), 0, 0, 0)
    /\ UNCHANGED outside

DrawFromStock == DrawWithin(MaxMoves)

MoveToTableau ==
    /\ moves < MaxMoves
    /\ UNCHANGED outside
    /\ \E from_pile \in Sources, to_pile_idx \in 0 .. NumTableau - 1 :
         \E card_idx \in CardIdxs(from_pile) :
            \E r \in {move_to_tableau(Game, from_pile, to_pile_idx, card_idx)} :
                /\ Becomes(r.g)
                /\ Observed("move_to_tableau", Game, r, from_pile, to_pile_idx, card_idx,
                            Len(r.g.tableau[to_pile_idx]) - Len(tableau[to_pile_idx]))

FoundationWithin(limit) ==
    /\ moves < limit
    /\ UNCHANGED outside
    /\ \E from_pile \in Sources, foundation_idx \in 0 .. NumFoundations - 1 :
            \E r \in {move_to_foundation(Game, from_pile, foundation_idx)} :
                /\ Becomes(r.g)
                /\ Observed("move_to_foundation", Game, r, from_pile, foundation_idx, 0,
                            Len(r.g.foundations[foundation_idx]) - Len(foundations[foundation_idx]))

MoveToFoundation == FoundationWithin(MaxMoves)

Next ==
    \/ NewGame
    \/ DrawFromStock
    \/ MoveToTableau
    \/ MoveToFoundation

Spec == Init /\ [][Next]_vars

\* A caller that plays to the end without building on the tableau: it draws
\* and moves to the foundations, for up to MaxWinMoves counted moves.
NextWin ==
    \/ NewGame
    \/ DrawWithin(MaxWinMoves)
    \/ FoundationWithin(MaxWinMoves)

SpecWin == Init /\ [][NextWin]_vars

\* ---- SolitaireGUI: the window around the game object --------------------
\* The window holds the game object and the selection.  A handler yields the
\* window after it (w) and the value returned by the engine's move call it
\* made (ret), "None" when it made none.
Window == [g |-> Game, selected_card |-> selected_card, selected_source |-> selected_source]

NoMove(w) == [w |-> w, ret |-> "None"]

\* the pile names of pile_coords: 'stock', 'waste', 'foundation_i', 'tableau_i'
PileName(s, i) == [kind |-> "str", str |-> s, int |-> i]
\* a click outside every pile
NoPile == PileName("", 0)
ClickedPiles ==
    {PileName("stock", 0), PileName("waste", 0), NoPile}
      \cup {PileName("foundation", f) : f \in 0 .. NumFoundations - 1}
      \cup {PileName("tableau", i) : i \in 0 .. NumTableau - 1}

\* Python truth of a selected_source: None, 0 and '' are false
Truthy(source) ==
    \/ source.kind = "str" /\ source.str # ""
    \/ source.kind = "int" /\ source.int # 0

\* src_pile.index(card) if card in src_pile else -1
IndexOf(pile, card) ==
    IF \E i \in 1 .. Len(pile) : pile[i] = card
    THEN (CHOOSE i \in 1 .. Len(pile) :
            pile[i] = card /\ \A j \in 1 .. i - 1 : pile[j] # card) - 1
    ELSE 0 - 1

select_card(w, source, card_idx) ==
    IF IsWaste(source) /\ w.g.waste # <<>>
    THEN [w EXCEPT !.selected_card = Last(w.g.waste),
                   !.selected_source = StrSrc("waste")]
    ELSE IF InRange(source)
    THEN LET pile == w.g.tableau[source.int]
         IN  IF card_idx < Len(pile) /\ w.g.face_up[pile[card_idx + 1]]
             THEN [w EXCEPT !.selected_card = pile[card_idx + 1],
                            !.selected_source = source]
             ELSE w
    ELSE w

\* faulty variant: the selection is kept after a move that succeeded
AfterMoveSelectionKept(w, r) == [w |-> [w EXCEPT !.g = r.g], ret |-> r.ret]

\* The window after the engine's move call returned r: the selection is
\* dropped when the call returned True, and only then.
AfterMove(w, r) ==
    [w |-> IF r.ret = "True"
           THEN [g |-> r.g, selected_card |-> NoneCard, selected_source |-> NoneSrc]
           ELSE [w EXCEPT !.g = r.g],
     ret |-> r.ret]

\* select_tableau_card on a pile whose top card is face-down
\* faulty variant: no return after the flip, the turned card gets selected
ManualFlipThenSelect(w, tableau_idx) ==
    [w |-> [w EXCEPT !.g.face_up[Last(w.g.tableau[tableau_idx])] = TRUE,
                     !.selected_card = Last(w.g.tableau[tableau_idx]),
                     !.selected_source = IntSrc(tableau_idx)],
     ret |-> "None"]

ManualFlip(w, tableau_idx) ==
    [w |-> [w EXCEPT !.g.face_up[Last(w.g.tableau[tableau_idx])] = TRUE],
     ret |-> "None"]

select_tableau_card(w, tableau_idx) ==
    LET pile == w.g.tableau[tableau_idx]
    IN  IF pile = <<>>
        THEN NoMove(w)
        ELSE IF ~w.g.face_up[Last(pile)]
        THEN ManualFlip(w, tableau_idx)
        ELSE IF w.selected_source # NoneSrc
        THEN IF IsWaste(w.selected_source)
             THEN AfterMove(w, move_to_tableau(w.g, StrSrc("waste"), tableau_idx, 0))
             ELSE IF w.selected_source.kind = "int"
             THEN LET src_pile == w.g.tableau[w.selected_source.int]
                      card_idx == IndexOf(src_pile, w.selected_card)
                  IN  IF card_idx >= 0
                      THEN AfterMove(w, move_to_tableau(w.g, w.selected_source,
                                                        tableau_idx, card_idx))
                      ELSE NoMove(w)
             ELSE NoMove(w)
        ELSE [w |-> [w EXCEPT !.selected_card = Last(pile),
                              !.selected_source = IntSrc(tableau_idx)],
              ret |-> "None"]

\* SolitaireGUI.move_to_foundation
gui_move_to_foundation(w, foundation_idx) ==
    IF ~Truthy(w.selected_source)
    THEN NoMove(w)
    ELSE AfterMove(w, move_to_foundation(w.g, w.selected_source, foundation_idx))

draw_card(w) == [w |-> [w EXCEPT !.g = draw_from_stock(w.g).g], ret |-> "None"]

\* SolitaireGUI.new_game, the shuffle giving deck
gui_new_game(w, deck) ==
    [w |-> [g |-> Dealt(deck), selected_card |-> NoneCard, selected_source |-> NoneSrc],
     ret |-> "None"]

on_canvas_click(w, clicked_pile) ==
    IF clicked_pile = NoPile
    THEN NoMove(w)
    ELSE IF clicked_pile.str = "stock"
    THEN draw_card(w)
    ELSE IF clicked_pile.str = "waste"
    THEN [w |-> select_card(w, StrSrc("waste"), 0), ret |-> "None"]
    ELSE IF clicked_pile.str = "foundation"
    THEN IF Truthy(w.selected_source)
         THEN gui_move_to_foundation(w, clicked_pile.int)
         ELSE NoMove(w)
    ELSE select_tableau_card(w, clicked_pile.int)

\* What is seen of a handler that ran on the window w with outcome o: the
\* handler, the pile clicked, the engine's answer and whether a flag changed.
Handled(handler, clicked_pile, o) ==
    /\ Becomes(o.w.g)
    /\ selected_card' = o.w.selected_card
    /\ selected_source' = o.w.selected_source
    /\ call' = handler
    /\ ret' = o.ret
    /\ applied' = [NoArgs EXCEPT !.src = clicked_pile,
                                 !.flipped = o.w.g.face_up # face_up]
    /\ text' = text

\* a mouse click on the canvas
OnCanvasClick ==
    /\ moves < MaxGuiMoves
    /\ \E clicked_pile \in ClickedPiles :
         \E o \in {on_canvas_click(Window, clicked_pile)} :
            Handled("on_canvas_click", clicked_pile, o)

\* the two buttons
DrawCard ==
    /\ moves < MaxGuiMoves
    /\ \E o \in {draw_card(Window)} : Handled("draw_card", NoPile, o)

GuiNewGame ==
    /\ \E deck \in Shuffles :
         \E o \in {gui_new_game(Window, deck)} : Handled("gui_new_game", NoPile, o)

NextGUI ==
    \/ OnCanvasClick
    \/ DrawCard
    \/ GuiNewGame

SpecGUI == Init /\ [][NextGUI]_vars

\* The window opened on a game in which the top card of one tableau pile
\* lies face-down, the position select_tableau_card's flip is written for.
\* The engine turns every card it uncovers, so no call sequence from a fresh
\* deal leads here: the position is given to the handlers as their input.
InitFlip ==
    /\ \E deck \in Shuffles, p \in 0 .. NumTableau - 1 :
         /\ stock = Dealt(deck).stock
         /\ waste = Dealt(deck).waste
         /\ foundations = Dealt(deck).foundations
         /\ tableau = Dealt(deck).tableau
         /\ face_up = [Dealt(deck).face_up EXCEPT ![Last(Dealt(deck).tableau[p])] = FALSE]
         /\ moves = Dealt(deck).moves
    /\ call = "__init__"
    /\ ret = "None"
    /\ applied = NoArgs
    /\ selected_card = NoneCard
    /\ selected_source = NoneSrc
    /\ text = NotStarted

SpecFlip == InitFlip /\ [][NextGUI]_vars

\* ---- src/text.py: the second program ------------------------------------
\* Its SolitaireGame object is the record text: deck (deck.cards),
\* waste_pile, foundation_piles and tableau_piles (the cards of each CardPile,
\* in list order; pile number i of the program is element i + 1), the
\* selection and moves.  Cards carry no face_up flag here.  move_history,
\* start_time and the drawing are left out: no handler reads them back.
TextSuits == <<"HEARTS", "DIAMONDS", "CLUBS", "SPADES">>
TextCards == [suit : {TextSuits[i] : i \in 1 .. Len(TextSuits)}, rank : RANKS]
get_color(card) == IF card.suit \in {"HEARTS", "DIAMONDS"} THEN "red" ELSE "black"

\* Deck.create_deck before the shuffle, and the shuffles explored
TextFreshDeck == [n \in 1 .. DeckSize |->
                    [suit |-> TextSuits[((n - 1) \div NumRanks) + 1],
                     rank |-> ((n - 1) % NumRanks) + 1]]
TextShuffles ==
    {[n \in 1 .. DeckSize |-> TextFreshDeck[((a * (n - 1) + b) % DeckSize) + 1]] :
        a \in {x \in Strides : Gcd(DeckSize, x) = 1}, b \in 0 .. MaxCut}

\* every order random.shuffle can leave a list in
Orders(cards) ==
    {[i \in 1 .. Len(cards) |-> cards[f[i]]] : f \in Permutations(1 .. Len(cards))}

\* a pile reference: a foundation or a tableau pile, by its list index
FoundationPile(i) == [is_foundation |-> TRUE, idx |-> i]
TableauPile(i) == [is_foundation |-> FALSE, idx |-> i]
PileCards(t, pile) ==
    IF pile.is_foundation THEN t.foundation_piles[pile.idx + 1]
                          ELSE t.tableau_piles[pile.idx + 1]

\* CardPile.can_accept_card
can_accept_card(t, pile, card) ==
    LET cards == PileCards(t, pile)
    IN  IF pile.is_foundation
        THEN IF cards = <<>>
             THEN card.rank = Ace
             ELSE card.suit = Last(cards).suit /\ card.rank = Last(cards).rank + 1
        ELSE IF cards = <<>>
             THEN card.rank = King
             ELSE /\ get_color(card) # get_color(Last(cards))
                  /\ card.rank = Last(cards).rank - 1

\* initialize_game: four more foundation piles and NumTableau more tableau
\* piles are appended to the lists, then every tableau pile of the list, in
\* list order, is dealt its index plus one cards for as long as deck.draw()
\* gives one.
initialize_game(t) ==
    LET founds == t.foundation_piles \o [i \in 1 .. NumFoundations |-> <<>>]
        piles == t.tableau_piles \o [i \in 1 .. NumTableau |-> <<>>]
        have == Len(t.deck)
        \* cards dealt to pile number p (1-based): what is left, at most p
        share(p) == LET left == have - DealtBefore(p - 1)
                    IN  IF left <= 0 THEN 0 ELSE IF left < p THEN left ELSE p
        asked == DealtBefore(Len(piles))
    IN  [t EXCEPT !.foundation_piles = founds,
                  !.tableau_piles =
                      [p \in 1 .. Len(piles) |->
                          piles[p] \o [j \in 1 .. share(p) |->
                                          t.deck[have + 1 - (DealtBefore(p - 1) + j)]]],
                  !.deck = SubSeq(t.deck, 1, IF asked < have THEN have - asked ELSE 0),
                  !.moves = 0]

\* SolitaireGame.__init__, the shuffle of Deck() giving deck
TextStarted(deck) == initialize_game([NotStarted EXCEPT !.deck = deck])

\* restart_game, the shuffle of the new Deck() giving deck
restart_game(t, deck) ==
    initialize_game([t EXCEPT !.deck = deck,
                              !.waste_pile = <<>>,
                              !.tableau_piles = [p \in 1 .. Len(@) |-> <<>>],
                              !.foundation_piles = [p \in 1 .. Len(@) |-> <<>>]])

\* draw_from_deck; shuffled is the order random.shuffle leaves the deck in
\* when the deck was empty
draw_from_deck(t, shuffled) ==
    IF t.deck # <<>>
    THEN [t EXCEPT !.deck = Front(t.deck),
                   !.waste_pile = Append(t.waste_pile, Last(t.deck)),
                   !.moves = t.moves + 1]
    ELSE [t EXCEPT !.deck = shuffled,
                   !.waste_pile = <<>>,
                   !.moves = t.moves + 1]

\* on_card_click(card, tag) for the tags 'waste', 'foundation_i', 'tableau_i_j'
on_card_click(t, card, tag) ==
    IF tag.str = "waste"
    THEN [t EXCEPT !.selected_card = card, !.selected_pile = NonePile]
    ELSE IF tag.str = "foundation"
    THEN [t EXCEPT !.selected_card = card, !.selected_pile = FoundationPile(tag.int)]
    ELSE [t EXCEPT !.selected_card = card, !.selected_pile = TableauPile(tag.int)]

select_pile(t, pile) ==
    IF PileCards(t, pile) = <<>> /\ ~pile.is_foundation
    THEN t
    ELSE IF PileCards(t, pile) = <<>>
    THEN t
    ELSE [t EXCEPT !.selected_card = Last(PileCards(t, pile)), !.selected_pile = pile]

check_win(t, deck) ==
    IF \A i \in 1 .. Len(t.foundation_piles) : Len(t.foundation_piles[i]) = King
    THEN restart_game(t, deck)
    ELSE t

\* list.append on the cards of a pile, list.pop on them
WithCard(t, pile, card) ==
    IF pile.is_foundation
    THEN [t EXCEPT !.foundation_piles[pile.idx + 1] = Append(@, card)]
    ELSE [t EXCEPT !.tableau_piles[pile.idx + 1] = Append(@, card)]
WithoutTop(t, pile) ==
    IF pile.is_foundation
    THEN [t EXCEPT !.foundation_piles[pile.idx + 1] = Front(@)]
    ELSE [t EXCEPT !.tableau_piles[pile.idx + 1] = Front(@)]

\* move_card; deck is the shuffle used if the move wins and restarts the game
move_card(t, from_pile, to_pile, deck) ==
    IF t.selected_card = NoneCard \/ PileCards(t, from_pile) = <<>>
    THEN t
    ELSE LET card == Last(PileCards(t, from_pile))
             moved == [WithCard(WithoutTop(t, from_pile), to_pile, card)
                          EXCEPT !.moves = t.moves + 1]
             after == IF can_accept_card(t, to_pile, card) THEN check_win(moved, deck) ELSE t
         IN  [after EXCEPT !.selected_card = NoneCard, !.selected_pile = NonePile]

\* on_canvas_release over the pile target, or over no pile (NonePile)
on_canvas_release(t, target, deck) ==
    IF t.selected_card = NoneCard \/ t.selected_pile = NonePile
    THEN t
    ELSE IF target # NonePile
    THEN move_card(t, t.selected_pile, target, deck)
    ELSE [t EXCEPT !.selected_card = NoneCard, !.selected_pile = NonePile]

\* the piles of the lists, and the tagged cards drawn on the canvas
TextPiles(t) ==
    {FoundationPile(i) : i \in 0 .. Len(t.foundation_piles) - 1}
      \cup {TableauPile(i) : i \in 0 .. Len(t.tableau_piles) - 1}
CardTags(t) ==
    (IF t.waste_pile = <<>>
     THEN {}
     ELSE {[card |-> Last(t.waste_pile), tag |-> PileName("waste", 0)]})
      \cup {[card |-> Last(t.foundation_piles[i]), tag |-> PileName("foundation", i - 1)] :
               i \in {k \in 1 .. Len(t.foundation_piles) : t.foundation_piles[k] # <<>>}}
      \cup UNION {{[card |-> t.tableau_piles[i][j], tag |-> PileName("tableau", i - 1)] :
                      j \in 1 .. Len(t.tableau_piles[i])} : i \in 1 .. Len(t.tableau_piles)}

\* the game object of src/unnamed/part_000 does not exist in this program
NoGame ==
    [stock |-> <<>>, waste |-> <<>>,
     foundations |-> [f \in 0 .. NumFoundations - 1 |-> <<>>],
     tableau |-> [i \in 0 .. NumTableau - 1 |-> <<>>],
     face_up |-> [c \in Cards |-> FALSE],
     moves |-> 0]

InitText ==
    /\ \E deck \in TextShuffles : text = TextStarted(deck)
    /\ stock = NoGame.stock
    /\ waste = NoGame.waste
    /\ foundations = NoGame.foundations
    /\ tableau = NoGame.tableau
    /\ face_up = NoGame.face_up
    /\ moves = NoGame.moves
    /\ call = "__init__"
    /\ ret = "None"
    /\ applied = NoArgs
    /\ selected_card = NoneCard
    /\ selected_source = NoneSrc

\* a handler of the second program ran
TextHandled(handler) ==
    /\ call' = handler
    /\ ret' = "None"
    /\ applied' = NoArgs
    /\ UNCHANGED <<game, selection>>

\* draw_from_deck is called as a method of the game object: the canvas binds
\* it to a click only while the deck has cards.
DrawFromDeck ==
    /\ text.moves < MaxTextMoves
    /\ \E shuffled \in Orders(text.deck \o text.waste_pile) :
          text' = draw_from_deck(text, shuffled)
    /\ TextHandled("draw_from_deck")

OnCardClick ==
    /\ \E c \in CardTags(text) : text' = on_card_click(text, c.card, c.tag)
    /\ TextHandled("on_card_click")

\* draw_game binds select_pile to the empty piles only
SelectPile ==
    /\ \E pile \in {q \in TextPiles(text) : PileCards(text, q) = <<>>} :
          text' = select_pile(text, pile)
    /\ TextHandled("select_pile")

OnCanvasRelease ==
    /\ text.moves < MaxTextMoves
    /\ \E target \in TextPiles(text) \cup {NonePile}, deck \in TextShuffles :
          text' = on_canvas_release(text, target, deck)
    /\ TextHandled("on_canvas_release")

RestartGame ==
    /\ Len(text.tableau_piles) < NumTableau * (MaxRestarts + 1)
    /\ \E deck \in TextShuffles : text' = restart_game(text, deck)
    /\ TextHandled("restart_game")

NextText ==
    \/ DrawFromDeck
    \/ OnCardClick
    \/ SelectPile
    \/ OnCanvasRelease
    \/ RestartGame

SpecText == InitText /\ [][NextText]_vars

TypeOK ==
    /\ moves \in 0 .. MaxWinMoves
    /\ ret \in {"True", "False", "None"}
    /\ call \in {"__init__", "new_game", "draw_from_stock", "move_to_tableau",
                 "move_to_foundation", "on_canvas_click", "draw_card", "gui_new_game",
                 "draw_from_deck", "on_card_click", "select_pile", "on_canvas_release",
                 "restart_game"}
    /\ text.moves \in 0 .. MaxTextMoves

\* ---- vocabulary of the properties ---------------------------------------
Piles == 0 .. NumTableau - 1
Slots == 0 .. NumFoundations - 1
Top(p) == p[Len(p)]
ButTop(p) == [i \in 1 .. Len(p) - 1 |-> p[i]]
IsRed(c) == c.suit = "HEART" \/ c.suit = "DIAMOND"
Occurs(p, c) == Cardinality({i \in 1 .. Len(p) : p[i] = c})

RECURSIVE OccursInFirst(_, _, _)
\* occurrences of c in piles[0] .. piles[n - 1]
OccursInFirst(piles, n, c) ==
    IF n = 0 THEN 0 ELSE Occurs(piles[n - 1], c) + OccursInFirst(piles, n - 1, c)

OccursAnywhere(c) ==
    Occurs(stock, c) + Occurs(waste, c)
      + OccursInFirst(foundations, NumFoundations, c) + OccursInFirst(tableau, NumTableau, c)

\* the tableau rule: a King on an empty pile, else one rank below the top
\* card and of the other colour
TableauAccepts(p, c) ==
    \/ p = <<>> /\ c.rank = NumRanks
    \/ p # <<>> /\ c.rank + 1 = Top(p).rank /\ IsRed(c) # IsRed(Top(p))

\* the foundation rule: an Ace on an empty pile, else the top card's suit
\* and one rank above it
FoundationAccepts(p, c) ==
    \/ p = <<>> /\ c.rank = 1
    \/ p # <<>> /\ c.suit = Top(p).suit /\ c.rank = Top(p).rank + 1

FromTableau == applied.src.kind = "int"
FromWaste == applied.src.kind = "str" /\ applied.src.str = "waste"

\* ---- C1 .. C10 ----------------------------------------------------------

\* C1 (card conservation): in every reachable state each card of the deck
\* lies in exactly one place of stock, waste, the foundations and the
\* tableau piles, and the piles hold nothing else.
C1_CardConservation ==
    /\ \A c \in Cards : OccursAnywhere(c) = 1
    /\ Range(stock) \cup Range(waste) \subseteq Cards
    /\ \A f \in Slots : Range(foundations[f]) \subseteq Cards
    /\ \A p \in Piles : Range(tableau[p]) \subseteq Cards

\* cards lie in the stock, the waste, a foundation and the tableau at once,
\* right after a run of two or more cards changed piles
W_C1_CardsSpread ==
    /\ call = "move_to_tableau" /\ ret = "True" /\ applied.n >= 2
    /\ stock # <<>> /\ waste # <<>>
    /\ \E f \in Slots : foundations[f] # <<>>

\* C2 (tableau ordering): in every tableau pile the face-down cards come
\* before the face-up ones, and two adjacent face-up cards step down by
\* exactly one rank and differ in colour.
C2_TableauOrdering ==
    \A p \in Piles : \A i \in 1 .. Len(tableau[p]) - 1 :
        LET below == tableau[p][i]
            above == tableau[p][i + 1]
        IN  /\ face_up[below] => face_up[above]
            /\ (face_up[below] /\ face_up[above]) =>
                 /\ above.rank = below.rank - 1
                 /\ IsRed(above) # IsRed(below)

\* a pile with a face-down card under a face-up run of three
W_C2_RunOnFaceDown ==
    \E p \in Piles :
        /\ Len(tableau[p]) >= 4
        /\ ~face_up[tableau[p][1]]
        /\ \A i \in Len(tableau[p]) - 2 .. Len(tableau[p]) : face_up[tableau[p][i]]

\* C3 (foundation ordering): a foundation of length k holds the ranks
\* 1 .. k of one suit, bottom to top.
C3_FoundationOrdering ==
    \A f \in Slots : \A i \in 1 .. Len(foundations[f]) :
        /\ foundations[f][i].rank = i
        /\ foundations[f][i].suit = foundations[f][1].suit

\* a foundation that has been built to two cards while another holds an Ace
W_C3_FoundationBuilt ==
    \E f, h \in Slots :
        /\ f # h
        /\ Len(foundations[f]) >= 2
        /\ Len(foundations[h]) >= 1

\* C4 (all-or-nothing): a move_to_tableau or move_to_foundation call that
\* returns False leaves stock, waste, foundations, tableau, every face_up
\* flag and the moves counter as they were.
C4_FailedMoveChangesNothing ==
    [][(call' \in {"move_to_tableau", "move_to_foundation"} /\ ret' = "False")
          => UNCHANGED game]_vars

\* a move was refused in the middle of a game
W_C4_MoveRefused ==
    /\ call \in {"move_to_tableau", "move_to_foundation"}
    /\ ret = "False"
    /\ moves >= 2
    /\ waste # <<>>

\* C5 (legality of a tableau run move): for tableau indices s and t and any
\* card_idx k >= 0, move_to_tableau(s, t, k) returns True exactly when k
\* addresses a face-up card of pile s that pile t accepts; an empty pile
\* refuses every card that is not a King and stays empty.
C5_RunMoveLegality ==
    \A s \in Piles, t \in Piles : \A k \in 0 .. Len(tableau[s]) + 1 :
      \A r \in {move_to_tableau(Game, IntSrc(s), t, k)} :
        LET addressed == k < Len(tableau[s])
            legal == /\ addressed
                     /\ face_up[tableau[s][k + 1]]
                     /\ TableauAccepts(tableau[t], tableau[s][k + 1])
        IN  /\ r.ret = "True" <=> legal
            /\ r.ret = "False" <=> ~legal
            /\ (addressed /\ tableau[t] = <<>> /\ tableau[s][k + 1].rank # NumRanks)
                  => (r.ret = "False" /\ r.g.tableau[t] = <<>>)

\* a King was moved onto an empty pile while another face-up card that is
\* no King lies on the tableau and a pile is empty
W_C5_KingOnEmptyPile ==
    /\ call = "move_to_tableau" /\ ret = "True" /\ FromTableau
    /\ Len(tableau[applied.dst]) = applied.n
    /\ tableau[applied.dst][1].rank = NumRanks
    /\ tableau[applied.src.int] = <<>>
    /\ \E p \in Piles : /\ tableau[p] # <<>>
                        /\ face_up[Top(tableau[p])]
                        /\ Top(tableau[p]).rank = NumRanks - 1

\* C6 (effect of a tableau run move): a move_to_tableau(s, t, k) that returns
\* True takes the cards s[k:] off pile s and puts them on pile t in the same
\* order, adds exactly 1 to moves, leaves the new top of s (if any) face-up
\* and changes no other pile.
C6_RunMoveEffect ==
    [][(call' = "move_to_tableau" /\ ret' = "True" /\ applied'.src.kind = "int") =>
          LET s == applied'.src.int
              t == applied'.dst
              k == applied'.idx
              run == [i \in 1 .. Len(tableau[s]) - k |-> tableau[s][k + i]]
          IN  /\ run # <<>>
              /\ tableau'[t] = tableau[t] \o run
              /\ tableau'[s] = [i \in 1 .. k |-> tableau[s][i]]
              /\ moves' = moves + 1
              /\ tableau'[s] # <<>> => face_up'[Top(tableau'[s])]
              /\ \A p \in Piles \ {s, t} : tableau'[p] = tableau[p]
              /\ UNCHANGED <<stock, waste, foundations>>]_vars

\* a run of three cards was moved and the card it uncovered was turned
W_C6_RunOfThreeMoved ==
    /\ call = "move_to_tableau" /\ ret = "True" /\ FromTableau
    /\ applied.n = 3
    /\ applied.flipped
    /\ tableau[applied.src.int] # <<>>

\* C7 (waste to tableau): move_to_tableau('waste', t, _) returns True exactly
\* when the waste is not empty and pile t accepts its top card; then that one
\* card goes from the waste top to the top of pile t, moves grows by 1, and
\* stock, foundations and the other tableau piles stay as they are.
C7_WasteToTableau ==
    \A t \in Piles : \A k \in 0 .. 1 :
      \A r \in {move_to_tableau(Game, StrSrc("waste"), t, k)} :
        LET legal == waste # <<>> /\ TableauAccepts(tableau[t], Top(waste))
        IN  /\ r.ret = "True" <=> legal
            /\ r.ret = "False" <=> ~legal
            /\ legal =>
                 /\ r.g.waste = ButTop(waste)
                 /\ r.g.tableau[t] = tableau[t] \o <<Top(waste)>>
                 /\ r.g.moves = moves + 1
                 /\ r.g.stock = stock
                 /\ r.g.foundations = foundations
                 /\ \A p \in Piles \ {t} : r.g.tableau[p] = tableau[p]

\* the waste's top card was put on a tableau pile, from a waste of two
W_C7_WasteCardPlaced ==
    /\ call = "move_to_tableau" /\ ret = "True" /\ FromWaste
    /\ applied.n = 1
    /\ Len(waste) = 1
    /\ Len(tableau[applied.dst]) >= 2

\* C8 (move to foundation): move_to_foundation(source, f), source 'waste' or
\* a tableau index, returns True exactly when the source has a top card,
\* that card is face-up and foundation f accepts it; then that one card goes
\* to foundation f, moves grows by 1, and the new top of a tableau source
\* (if any) is face-up.
C8_MoveToFoundation ==
    \A from_pile \in {StrSrc("waste")} \cup {IntSrc(s) : s \in Piles}, f \in Slots :
      \A r \in {move_to_foundation(Game, from_pile, f)} :
        LET isWaste == from_pile.kind = "str"
            pile == IF isWaste THEN waste ELSE tableau[from_pile.int]
            after == IF isWaste THEN r.g.waste ELSE r.g.tableau[from_pile.int]
            legal == /\ pile # <<>>
                     /\ face_up[Top(pile)]
                     /\ FoundationAccepts(foundations[f], Top(pile))
        IN  /\ r.ret = "True" <=> legal
            /\ r.ret = "False" <=> ~legal
            /\ legal =>
                 /\ r.g.foundations[f] = foundations[f] \o <<Top(pile)>>
                 /\ \A h \in Slots \ {f} : r.g.foundations[h] = foundations[h]
                 /\ after = ButTop(pile)
                 /\ r.g.stock = stock
                 /\ isWaste => r.g.tableau = tableau
                 /\ ~isWaste => /\ r.g.waste = waste
                                /\ \A p \in Piles \ {from_pile.int} :
                                      r.g.tableau[p] = tableau[p]
                                /\ after # <<>> => r.g.face_up[Top(after)]
                 /\ r.g.moves = moves + 1

\* a tableau card went onto a foundation card of its suit and the card it
\* uncovered was turned
W_C8_FoundationFromTableau ==
    /\ call = "move_to_foundation" /\ ret = "True" /\ FromTableau
    /\ applied.flipped
    /\ Len(foundations[applied.dst]) >= 2

\* C9 (draw): draw_from_stock with cards in the stock moves the stock's last
\* card to the top of the waste, turns it face-up, adds exactly 1 to moves
\* and leaves foundations and tableau as they are.
C9_DrawMovesTopCard ==
    [][(call' = "draw_from_stock" /\ stock # <<>>) =>
          /\ stock' = ButTop(stock)
          /\ waste' = waste \o <<Top(stock)>>
          /\ face_up'[Top(stock)]
          /\ moves' = moves + 1
          /\ UNCHANGED <<foundations, tableau>>]_vars

\* a second card was drawn onto the waste
W_C9_SecondCardDrawn ==
    /\ call = "draw_from_stock"
    /\ Len(waste) = 2
    /\ face_up[waste[1]] /\ face_up[waste[2]]

\* C10 (recycle): draw_from_stock with an empty stock and n >= 1 waste cards
\* puts all n cards on the stock in reverse of their waste order, every one
\* face-down, leaves the waste empty, draws nothing and leaves moves as it is.
C10_RecycleReversesWaste ==
    [][(call' = "draw_from_stock" /\ stock = <<>> /\ waste # <<>>) =>
          /\ stock' = [i \in 1 .. Len(waste) |-> waste[Len(waste) + 1 - i]]
          /\ waste' = <<>>
          /\ \A i \in 1 .. Len(waste) : ~face_up'[waste[i]]
          /\ moves' = moves
          /\ UNCHANGED <<foundations, tableau>>]_vars

\* a waste of two cards has just been turned back into the stock
W_C10_TwoCardsRecycled ==
    /\ call = "draw_from_stock"
    /\ waste = <<>>
    /\ Len(stock) = 2
    /\ moves >= 2

\* ---- C11 .. C20 ---------------------------------------------------------

RECURSIVE Drawn(_, _)
\* the game after k successive draw_from_stock calls
Drawn(g, k) == IF k = 0 THEN g ELSE Drawn(draw_from_stock(g).g, k - 1)

\* the tableau lies as it was dealt: pile i holds i + 1 cards, the top one
\* alone face-up
TableauAsDealt ==
    \A p \in Piles :
        /\ Len(tableau[p]) = p + 1
        /\ \A i \in 1 .. p + 1 : face_up[tableau[p][i]] <=> i = p + 1

\* C11 (recycle round trip): from a state with an empty stock and n waste
\* cards, one recycling draw_from_stock and n more draw_from_stock calls
\* give back the same waste, card for card, over an empty stock.
C11_RecycleRoundTrip ==
    (stock = <<>> /\ waste # <<>>) =>
        \A after \in {Drawn(Game, Len(waste) + 1)} :
            /\ after.waste = waste
            /\ after.stock = <<>>
            /\ Drawn(Game, 1).waste = <<>>

\* the round trip has been made with two cards: two draws, the recycle and
\* two more draws are all that happened since the deal
W_C11_TwoCardsBackOnWaste ==
    /\ call = "draw_from_stock"
    /\ stock = <<>>
    /\ Len(waste) = 2
    /\ moves = 4
    /\ TableauAsDealt
    /\ \A f \in Slots : foundations[f] = <<>>

\* C12 (win detection): is_won() is False on a fresh deal; in every
\* reachable state it is True exactly when each foundation holds a full
\* suit, and that is exactly when stock, waste and every tableau pile are
\* empty.
C12_WinDetection ==
    LET full == \A f \in Slots : Len(foundations[f]) = NumRanks
        cleared == stock = <<>> /\ waste = <<>> /\ \A p \in Piles : tableau[p] = <<>>
    IN  /\ call \in {"__init__", "new_game"} => ~is_won(Game)
        /\ is_won(Game) <=> full
        /\ full <=> cleared

\* the last card has just gone to its foundation
W_C12_GameWon ==
    /\ call = "move_to_foundation" /\ ret = "True"
    /\ is_won(Game)
    /\ moves >= DeckSize

\* C13 as stated (reveal is irreversible): apart from new_game, no call
\* turns a face-up card face-down.
C13_NeverFaceDownAgain ==
    [][call' # "new_game" => \A c \in Cards : face_up[c] => face_up'[c]]_vars

\* C13, amended: apart from new_game, the one call that turns a face-up card
\* face-down is the recycling draw_from_stock, and the cards it turns are
\* those of the waste; a card lying face-up on the tableau or on a foundation
\* stays face-up.
C13_FaceDownOnlyByRecycle ==
    [][call' # "new_game" =>
          \A c \in Cards : (face_up[c] /\ ~face_up'[c]) =>
              /\ call' = "draw_from_stock"
              /\ stock = <<>>
              /\ \E i \in 1 .. Len(waste) : waste[i] = c]_vars

\* a recycle has turned a waste card face-down while a card revealed on the
\* tableau or moved to a foundation earlier stays face-up
W_C13_RecycledAfterReveal ==
    /\ call = "draw_from_stock"
    /\ waste = <<>>
    /\ Len(stock) = 1
    /\ ~face_up[stock[1]]
    /\ \/ \E f \in Slots : foundations[f] # <<>>
       \/ \E p \in Piles : Cardinality({i \in 1 .. Len(tableau[p]) : face_up[tableau[p][i]]}) >= 2

\* C14 (foundation is terminal): apart from new_game, every call leaves each
\* foundation as it was or with exactly one more card on top; a card in a
\* foundation keeps its foundation and its position.
C14_FoundationTerminal ==
    [][call' # "new_game" =>
          \A f \in Slots :
              /\ Len(foundations'[f]) \in {Len(foundations[f]), Len(foundations[f]) + 1}
              /\ \A i \in 1 .. Len(foundations[f]) : foundations'[f][i] = foundations[f][i]]_vars

\* a foundation of two cards came through a later successful tableau move
W_C14_FoundationKept ==
    /\ call = "move_to_tableau" /\ ret = "True"
    /\ \E f \in Slots : Len(foundations[f]) >= 2

\* C15 (fresh deal): after construction and after new_game, tableau pile i
\* holds i + 1 cards of which only the top one is face-up, the stock holds
\* all the other cards face-down, waste and foundations are empty and moves
\* is 0.
C15_FreshDeal ==
    call \in {"__init__", "new_game"} =>
        /\ \A p \in Piles :
              /\ Len(tableau[p]) = p + 1
              /\ \A i \in 1 .. p : ~face_up[tableau[p][i]]
              /\ face_up[Top(tableau[p])]
        /\ Len(stock) = 4 * NumRanks - (NumTableau * (NumTableau + 1)) \div 2
        /\ \A i \in 1 .. Len(stock) : ~face_up[stock[i]]
        /\ waste = <<>>
        /\ \A f \in Slots : foundations[f] = <<>>
        /\ moves = 0
        /\ \A c \in Cards : OccursAnywhere(c) = 1

\* new_game has just dealt again
W_C15_DealtAgain ==
    /\ call = "new_game"
    /\ Len(stock) >= 2
    /\ face_up[Top(tableau[NumTableau - 1])]

\* C16 (face orientation): every stock card is face-down, every waste card
\* and every foundation card is face-up; so a successful waste-to-tableau
\* move changes no flag.
C16_FaceOrientation ==
    /\ \A i \in 1 .. Len(stock) : ~face_up[stock[i]]
    /\ \A i \in 1 .. Len(waste) : face_up[waste[i]]
    /\ \A f \in Slots : \A i \in 1 .. Len(foundations[f]) : face_up[foundations[f][i]]
    /\ \A t \in Piles : \A r \in {move_to_tableau(Game, StrSrc("waste"), t, 0)} :
          r.ret = "True" => r.g.face_up = face_up

\* the waste's top card went to the tableau and left a card on the waste,
\* with cards on a foundation
W_C16_WasteTopUncovered ==
    /\ call = "move_to_tableau" /\ ret = "True" /\ FromWaste
    /\ waste # <<>>
    /\ \E f \in Slots : foundations[f] # <<>>

\* source values that are neither 'waste' nor a tableau index
NoSource == {StrSrc("stock"), StrSrc(""), StrSrc("tableau"),
             IntSrc(0 - 1), IntSrc(NumTableau), IntSrc(NumTableau + 1)}

\* C19 (structural impossibilities): draw_from_stock with stock and waste
\* both empty changes nothing; move_to_tableau and move_to_foundation with a
\* source that is neither 'waste' nor a tableau index return False and
\* change nothing.
C19_ImpossibleCallsAreNoOps ==
    /\ (stock = <<>> /\ waste = <<>>) => draw_from_stock(Game).g = Game
    /\ \A from_pile \in NoSource :
          /\ \A t \in Piles, k \in 0 .. 1 :
                \A r \in {move_to_tableau(Game, from_pile, t, k)} :
                    r.ret = "False" /\ r.g = Game
          /\ \A f \in Slots :
                \A r \in {move_to_foundation(Game, from_pile, f)} :
                    r.ret = "False" /\ r.g = Game

\* draw_from_stock was called with nothing left to draw or to recycle
W_C19_NothingToDraw ==
    /\ call = "draw_from_stock"
    /\ stock = <<>>
    /\ waste = <<>>

\* the tableau pile a canvas click landed on
ClickedTableau(i) == applied.src.str = "tableau" /\ applied.src.int = i

\* C17 (manual flip): a click on a tableau pile whose top card is face-down
\* sets that card's flag to True and does nothing else: no card moves, no
\* other flag changes, moves and the selection stay, and no move is
\* attempted on the engine.
C17_ManualFlipOnlyFlips ==
    [][\A i \in Piles :
          (/\ call' = "on_canvas_click"
           /\ ClickedTableau(i)'
           /\ tableau[i] # <<>>
           /\ ~face_up[Top(tableau[i])]) =>
              /\ face_up'[Top(tableau[i])]
              /\ \A c \in Cards \ {Top(tableau[i])} : face_up'[c] = face_up[c]
              /\ UNCHANGED <<stock, waste, foundations, tableau, moves>>
              /\ UNCHANGED <<selected_card, selected_source>>
              /\ ret' = "None"]_vars

\* a face-down top card was turned by a click while another card was
\* selected, a card the turned card could not take
W_C17_FlippedWhileSelected ==
    /\ call = "on_canvas_click" /\ ret = "None"
    /\ applied.flipped
    /\ \E i \in Piles :
         /\ ClickedTableau(i)
         /\ selected_card # Top(tableau[i])
         /\ selected_card \in Cards
         /\ ~TableauAccepts(tableau[i], selected_card)

\* C18 as stated (selection is cleared): after a canvas click that made a
\* move call on the engine, accepted or rejected, selected_card and
\* selected_source are both None.
C18_SelectionCleared ==
    [][(call' = "on_canvas_click" /\ ret' \in {"True", "False"}) =>
          (selected_card' = NoneCard /\ selected_source' = NoneSrc)]_vars

\* C20 as stated (recycle in the second program): draw_from_deck on an empty
\* deck puts the waste cards on the deck in reverse of their waste order,
\* empties the waste and leaves moves as it is; with deck and waste both
\* empty it changes nothing.
C20_RecycleIsReversal ==
    [][(call' = "draw_from_deck" /\ text.deck = <<>>) =>
          /\ text'.deck = [i \in 1 .. Len(text.waste_pile) |->
                              text.waste_pile[Len(text.waste_pile) + 1 - i]]
          /\ text'.waste_pile = <<>>
          /\ text'.moves = text.moves]_vars

\* ---- C21 .. C26 ---------------------------------------------------------

\* C21 as stated (restart in the second program): after restart_game there
\* are exactly four foundation piles, all empty, and exactly NumTableau
\* tableau piles holding 1, 2, ... cards; the deck holds all the other
\* cards, the waste is empty and moves is 0.
C21_RestartDealsAfresh ==
    call = "restart_game" =>
        /\ Len(text.foundation_piles) = NumFoundations
        /\ \A i \in 1 .. Len(text.foundation_piles) : text.foundation_piles[i] = <<>>
        /\ Len(text.tableau_piles) = NumTableau
        /\ \A i \in 1 .. Len(text.tableau_piles) : Len(text.tableau_piles[i]) = i
        /\ Len(text.deck) = 4 * NumRanks - (NumTableau * (NumTableau + 1)) \div 2
        /\ text.waste_pile = <<>>
        /\ text.moves = 0

\* C22 as stated (waste card playable in the second program): when the
\* waste is not empty, clicking its top card (on_card_click with the tag
\* 'waste') and releasing the pointer over a pile whose can_accept_card
\* accepts that card takes the card off the waste, puts it on that pile and
\* raises moves by 1.
C22_WasteCardPlayable ==
    text.waste_pile # <<>> =>
        \A target \in TextPiles(text), deck \in TextShuffles :
            can_accept_card(text, target, Last(text.waste_pile)) =>
                \A after \in {on_canvas_release(
                                 on_card_click(text, Last(text.waste_pile), PileName("waste", 0)),
                                 target, deck)} :
                    /\ Len(after.waste_pile) = Len(text.waste_pile) - 1
                    /\ PileCards(after, target) =
                           Append(PileCards(text, target), Last(text.waste_pile))
                    /\ after.moves = text.moves + 1

\* C23 (tableau top is always revealed): in every state reached from a fresh
\* deal by draw_from_stock, move_to_tableau, move_to_foundation and new_game
\* the top card of every tableau pile that has cards is face-up, so the
\* condition of the manual flip (a pile whose top card is face-down) never
\* holds; and the card a successful move_to_tableau has put its cards on
\* is face-up.
C23_TableauTopRevealed ==
    /\ \A i \in Piles : tableau[i] # <<>> => face_up[Top(tableau[i])]
    /\ (call = "move_to_tableau" /\ ret = "True"
          /\ Len(tableau[applied.dst]) > applied.n) =>
            face_up[tableau[applied.dst][Len(tableau[applied.dst]) - applied.n]]

\* a move_to_tableau took cards off a pile, the card below them was turned,
\* and the moved cards lie on another card
W_C23_UncoveredAndTurned ==
    /\ call = "move_to_tableau"
    /\ ret = "True"
    /\ applied.flipped
    /\ applied.src.kind = "int"
    /\ tableau[applied.src.int] # <<>>
    /\ Len(tableau[applied.dst]) > applied.n

\* the pile selected_source names, when it names a tableau pile or the waste
SelectedPile ==
    IF selected_source.kind = "int" THEN tableau[selected_source.int] ELSE waste
SourceSelected ==
    \/ selected_source.kind = "int" /\ selected_source.int \in Piles
    \/ selected_source.kind = "str" /\ selected_source.str = "waste"

\* C24 as stated (foundation click works for every source column): for
\* every tableau index, column 0 included, and for the waste as the current
\* selected_source, a click on a foundation that accepts the top card of
\* that source puts the card on the foundation, raises moves by 1 and
\* clears the selection.
C24_FoundationClickFromEverySource ==
    (SourceSelected /\ SelectedPile # <<>>) =>
        \A f \in Slots :
            FoundationAccepts(foundations[f], Top(SelectedPile)) =>
                \A o \in {on_canvas_click(Window, PileName("foundation", f))} :
                    /\ o.w.g.foundations[f] = Append(foundations[f], Top(SelectedPile))
                    /\ o.w.g.moves = moves + 1
                    /\ o.w.selected_card = NoneCard
                    /\ o.w.selected_source = NoneSrc

\* the cards of the selected pile from the selected card upwards (the card
\* and the run lying on it); the waste gives its top card alone
SelectedRun ==
    IF selected_source.kind = "int"
    THEN SubSeq(SelectedPile,
                CHOOSE i \in 1 .. Len(SelectedPile) : SelectedPile[i] = selected_card,
                Len(SelectedPile))
    ELSE <<Top(SelectedPile)>>
KingSelected ==
    /\ SourceSelected
    /\ selected_card.rank = NumRanks
    /\ face_up[selected_card]
    /\ IF selected_source.kind = "int"
       THEN \E i \in 1 .. Len(SelectedPile) : SelectedPile[i] = selected_card
       ELSE SelectedPile # <<>> /\ Top(SelectedPile) = selected_card

\* C25 as stated (King onto an empty column through the window): when the
\* selected card is a face-up King, the waste top or a tableau card with the
\* run on it, a click on an empty tableau column moves the King with its run
\* to that column, raises moves by 1 and clears the selection.
C25_KingOntoEmptyColumn ==
    KingSelected =>
        \A t \in Piles :
            tableau[t] = <<>> =>
                \A o \in {on_canvas_click(Window, PileName("tableau", t))} :
                    /\ o.w.g.tableau[t] = SelectedRun
                    /\ o.w.g.moves = moves + 1
                    /\ o.w.selected_card = NoneCard
                    /\ o.w.selected_source = NoneSrc

\* C26 (the window's selection always points at a pile top): in every state
\* reached through on_canvas_click, the draw button and new_game, whenever
\* selected_source is a tableau index, selected_card is the top card of that
\* pile; and every click on a tableau pile that moves cards from a selected
\* tableau pile moves exactly one card.
C26_SelectionPointsAtTop ==
    selected_source.kind = "int" =>
        /\ selected_source.int \in Piles
        /\ tableau[selected_source.int] # <<>>
        /\ selected_card = Top(tableau[selected_source.int])
        /\ \A t \in Piles :
              \A o \in {on_canvas_click(Window, PileName("tableau", t))} :
                  o.ret = "True" =>
                      /\ Len(o.w.g.tableau[t]) = Len(tableau[t]) + 1
                      /\ Len(o.w.g.tableau[selected_source.int])
                            = Len(tableau[selected_source.int]) - 1

\* after a move, the top card of a pile of several cards is selected and a
\* click on some other tableau pile would move it
W_C26_TopSelectedAndMovable ==
    /\ moves > 0
    /\ selected_source.kind = "int"
    /\ Len(tableau[selected_source.int]) > 1
    /\ \E t \in Piles : on_canvas_click(Window, PileName("tableau", t)).ret = "True"

====
